---- MODULE Spec2Model ----
(***************************************************************************)
(* tiny-multihash: the multihash table generated by the Multihash derive   *)
(* (proc-macro/src/multihash.rs), the wire codec of src/multihash.rs and   *)
(* the catalog validation of derive/src/multihash.rs.                      *)
(*                                                                         *)
(* Bytes are the naturals 0..255, byte strings are sequences of bytes.     *)
(***************************************************************************)
EXTENDS Integers, Sequences, FiniteSets, TLC

VARIABLES
    table,      \* name of the enum the derive was applied to (the registry)
    mh,         \* the multihash value the caller holds, or NoValue
    buf,        \* the byte stream: write appends to it, read consumes from it
    fed,        \* number of bytes the environment has put into the stream itself
    last,       \* the last call: its name, arguments and result
    catalog,    \* the enum handed to the validating derive, or NoCatalog
    diags,      \* the diagnostics that expansion emitted, in order
    outcome,    \* "none" before the expansion, then "expanded" or "aborted"
    registry    \* the impls the derive put into the crate, or NoRegistry

vars == <<table, mh, buf, fed, last, catalog, diags, outcome, registry>>
codec_vars == <<table, mh, buf, fed, last>>
derive_vars == <<catalog, diags, outcome, registry>>

(***************************************************************************)
(* Bounds of the model.                                                    *)
(***************************************************************************)
\* longest hasher input
MaxInput == 2
\* most bytes the environment puts into the stream around a written value
MaxFeed == 1
\* longest stream of arbitrary bytes handed to read
MaxStream == 3
\* most variants of an enum handed to the validating derive
MaxEntries == 2
\* most room of the bounded sinks that fail early in a write
MaxRoom == 4

Min(a, b) == IF a < b THEN a ELSE b

RECURSIVE SeqsUpTo(_, _)
SeqsUpTo(S, n) ==
    IF n = 0 THEN {<<>>}
    ELSE LET shorter == SeqsUpTo(S, n - 1)
         IN  shorter \cup {Append(s, b) : s \in {t \in shorter : Len(t) = n - 1}, b \in S}

RECURSIVE SumSeq(_)
SumSeq(s) == IF s = <<>> THEN 0 ELSE s[1] + SumSeq(Tail(s))

\* the hashed inputs: the beginnings of b"hello world"
Message == <<104, 101, 108, 108, 111, 32, 119, 111, 114, 108, 100>>
Inputs == {SubSeq(Message, 1, k) : k \in 0..Min(MaxInput, Len(Message))}

\* bytes the environment feeds into the stream next to written values
FeedBytes == {0, 255}

\* the errors of failing sinks (io::ErrorKind), numbered: WriteZero, BrokenPipe
SinkErrors == {1, 2}

\* bytes arbitrary streams are made of: codes and sizes of both tables, codes of
\* neither, continuation bytes (>= 128) and a zero
SampleBytes == {0, 1, 3, 18, 32, 64, 128, 160}
Streams == SeqsUpTo(SampleBytes, MaxStream)

(***************************************************************************)
(* The tables: one entry per enum variant, from its #[mh(code, hasher)]    *)
(* attribute and its field type (the digest type with its typenum size).   *)
(***************************************************************************)
Entry(i, c, h, d, n) == [ident |-> i, code |-> c, hasher |-> h, digest |-> [family |-> d, size |-> n]]

\* src/code.rs
CodeTable == <<
    Entry("Identity256", 0,     "Identity256", "IdentityDigest", 32),
    Entry("Sha1",        17,    "Sha1",        "Sha1Digest",     20),
    Entry("Sha2_256",    18,    "Sha2_256",    "Sha2Digest",     32),
    Entry("Sha2_512",    19,    "Sha2_512",    "Sha2Digest",     64),
    Entry("Sha3_224",    23,    "Sha3_224",    "Sha3Digest",     28),
    Entry("Sha3_256",    22,    "Sha3_256",    "Sha3Digest",     32),
    Entry("Sha3_384",    21,    "Sha3_384",    "Sha3Digest",     48),
    Entry("Sha3_512",    20,    "Sha3_512",    "Sha3Digest",     64),
    Entry("Keccak224",   26,    "Keccak224",   "KeccakDigest",   28),
    Entry("Keccak256",   27,    "Keccak256",   "KeccakDigest",   32),
    Entry("Keccak384",   28,    "Keccak384",   "KeccakDigest",   48),
    Entry("Keccak512",   29,    "Keccak512",   "KeccakDigest",   64),
    Entry("Blake2b256",  45600, "Blake2b256",  "Blake2bDigest",  32),
    Entry("Blake2b512",  45632, "Blake2b512",  "Blake2bDigest",  64),
    Entry("Blake2s128",  45648, "Blake2s128",  "Blake2sDigest",  16),
    Entry("Blake2s256",  45664, "Blake2s256",  "Blake2sDigest",  32),
    Entry("Strobe256",   160,   "Strobe256",   "StrobeDigest",   32),
    Entry("Strobe512",   161,   "Strobe512",   "StrobeDigest",   64) >>

\* tests/custom_table.rs
CustomTable == <<
    Entry("Foo", 1, "Sha2_256", "Sha2Digest", 32),
    Entry("Bar", 2, "Sha2_512", "Sha2Digest", 64) >>

TableNames == {"code", "custom_table"}

\* s.variants().iter().map(Hash::from).collect()
hashes(t) == IF t = "code" THEN CodeTable ELSE CustomTable

Range(s) == {s[i] : i \in 1..Len(s)}

(***************************************************************************)
(* Hashers: external capabilities.  A hasher maps any input to a digest of *)
(* its digest type, whose length is the typenum size of that type.         *)
(***************************************************************************)
HasherNames == <<"Identity256", "Sha1", "Sha2_256", "Sha2_512", "Sha3_224", "Sha3_256",
                 "Sha3_384", "Sha3_512", "Keccak224", "Keccak256", "Keccak384", "Keccak512",
                 "Blake2b256", "Blake2b512", "Blake2s128", "Blake2s256", "Strobe256",
                 "Strobe512">>

HasherSalt(h) == CHOOSE i \in 1..Len(HasherNames) : HasherNames[i] = h

\* Hasher::digest(input): deterministic, of the hasher's fixed length
HasherDigest(e, input) ==
    [i \in 1..e.digest.size |->
        (i * HasherSalt(e.hasher) + 7 * Len(input) + 13 * SumSeq(input)) % 256]

\* Hasher::size() -> u8
HasherSize(e) == e.digest.size % 256

(***************************************************************************)
(* Values and results.                                                     *)
(***************************************************************************)
NoValue == [ident |-> "", digest |-> <<>>]

\* Self::#ident(digest)
Variant(e, d) == [ident |-> e.ident, digest |-> d]

Ok(v) == [tag |-> "Ok", mh |-> v, n |-> 0]
Err(tag, n) == [tag |-> tag, mh |-> NoValue, n |-> n]

\* the match arm a value selects
EntryOf(t, v) == CHOOSE e \in Range(hashes(t)) : e.ident = v.ident

\* the first match arm whose code pattern matches, if any
ArmsFor(t, c) == {i \in 1..Len(hashes(t)) : hashes(t)[i].code = c}
FirstArm(t, c) == hashes(t)[CHOOSE i \in ArmsFor(t, c) : \A j \in ArmsFor(t, c) : i <= j]

(***************************************************************************)
(* The generated impl of MultihashDigest and MultihashCreate.              *)
(***************************************************************************)
\* fn code(&self) -> u64: match self { Self::#ident(mh) => #code }
code(t, v) == EntryOf(t, v).code

\* size with the arm's code in place of #hasher::size()
size_from_code(t, v) == EntryOf(t, v).code % 256

\* fn size(&self) -> u8: match self { Self::#ident(mh) => #hasher::size() }
size(t, v) == HasherSize(EntryOf(t, v))

\* fn digest(&self) -> &[u8]: match self { Self::#ident(mh) => mh.as_ref() }
digest(v) == v.digest

\* an equality that compares the digest bytes alone
eq_digest_only(v1, v2) == digest(v1) = digest(v2)

\* #[derive(Eq, PartialEq)] on the enum: the same variant around equal digests
eq(v1, v2) == v1.ident = v2.ident /\ v1.digest = v2.digest

\* new whose wildcard arm makes the first variant instead of failing
new_default_arm(t, c, input) ==
    LET e == IF ArmsFor(t, c) = {} THEN hashes(t)[1] ELSE FirstArm(t, c)
    IN  Ok(Variant(e, HasherDigest(e, input)))

\* fn new(code, input): match code { #code => Ok(Self::#ident(#hasher::digest(input))),
\*                                   _ => Err(UnsupportedCode(code)) }
new(t, c, input) ==
    IF ArmsFor(t, c) = {} THEN Err("UnsupportedCode", c)
    ELSE LET e == FirstArm(t, c) IN Ok(Variant(e, HasherDigest(e, input)))

\* from_digest that tells the digest types apart by their size alone
from_digest_by_size(t, dty, d) ==
    Variant(CHOOSE e \in Range(hashes(t)) : e.digest.size = dty.size, d)

\* impl From<#digest> for #mh_digest: Self::#ident(digest), selected by the digest's type
from_digest(t, dty, d) ==
    Variant(CHOOSE e \in Range(hashes(t)) : e.digest = dty, d)

(***************************************************************************)
(* Unsigned varints (unsigned_varint): little-endian base 128, seven       *)
(* payload bits per byte, high bit set on every byte but the last.         *)
(***************************************************************************)
\* bytes a u64 takes at most
U64_LEN == 10

RECURSIVE varint_encode(_)
varint_encode(n) ==
    IF n < 128 THEN <<n>>
    ELSE <<128 + (n % 128)>> \o varint_encode(n \div 128)

RECURSIVE varint_decode(_)
varint_decode(bytes) ==
    IF bytes = <<>> THEN 0
    ELSE (bytes[1] % 128) + 128 * varint_decode(Tail(bytes))

\* index of the byte that ends the varint at the head of s, 0 if none of the
\* first U64_LEN bytes does
varint_end(s) ==
    LET ends == {i \in 1..Min(Len(s), U64_LEN) : s[i] < 128}
    IN  IF ends = {} THEN 0 ELSE CHOOSE i \in ends : \A j \in ends : i <= j

\* unsigned_varint::io::read_u64: reads byte by byte up to the last byte of the
\* varint; end of stream is an I/O error, no last byte within U64_LEN bytes or a
\* zero last group are decode errors
read_u64(s) ==
    LET i == varint_end(s)
    IN  IF i = 0
        THEN IF Len(s) < U64_LEN
             THEN [tag |-> "Io", n |-> 0, rest |-> <<>>]
             ELSE [tag |-> "Varint", n |-> 0, rest |-> SubSeq(s, U64_LEN + 1, Len(s))]
        ELSE IF i > 1 /\ s[i] = 0
             THEN [tag |-> "Varint", n |-> 0, rest |-> SubSeq(s, i + 1, Len(s))]
             ELSE [tag |-> "Ok", n |-> varint_decode(SubSeq(s, 1, i)),
                   rest |-> SubSeq(s, i + 1, Len(s))]

(***************************************************************************)
(* The codec of src/multihash.rs.                                          *)
(***************************************************************************)
\* A sink (std::io::Write): the bytes it has taken.  A Vec takes everything; a
\* bounded sink, such as the &mut [u8] of the roundtrip test, takes room more
\* bytes and then fails with its error (kind).
VecSink(bytes) == [data |-> bytes, bounded |-> FALSE, room |-> 0, kind |-> 0]
Slice(room, kind) == [data |-> <<>>, bounded |-> TRUE, room |-> room, kind |-> kind]

\* w.write_all(bytes): whether it succeeded, and the sink after it; a sink
\* without room for all the bytes takes what fits and fails
write_all(w, bytes) ==
    IF ~w.bounded
    THEN [ok |-> TRUE, w |-> [w EXCEPT !.data = @ \o bytes]]
    ELSE IF Len(bytes) <= w.room
    THEN [ok |-> TRUE, w |-> [w EXCEPT !.data = @ \o bytes, !.room = @ - Len(bytes)]]
    ELSE [ok |-> FALSE, w |-> [w EXCEPT !.data = @ \o SubSeq(bytes, 1, w.room), !.room = 0]]

\* write_mh without the size varint
write_mh_no_size(w, t, v) ==
    LET a == write_all(w, varint_encode(code(t, v)))
        c == write_all(a.w, digest(v))
    IN  IF ~a.ok THEN [res |-> Err("Io", w.kind), w |-> a.w]
        ELSE IF ~c.ok THEN [res |-> Err("Io", w.kind), w |-> c.w]
        ELSE [res |-> Ok(v), w |-> c.w]

\* write_mh with the size written before the code
write_mh_size_first(w, t, v) ==
    LET b == write_all(w, varint_encode(size(t, v)))
        a == write_all(b.w, varint_encode(code(t, v)))
        c == write_all(a.w, digest(v))
    IN  IF ~b.ok THEN [res |-> Err("Io", w.kind), w |-> b.w]
        ELSE IF ~a.ok THEN [res |-> Err("Io", w.kind), w |-> a.w]
        ELSE IF ~c.ok THEN [res |-> Err("Io", w.kind), w |-> c.w]
        ELSE [res |-> Ok(v), w |-> c.w]

\* write_mh that drops the results of write_all (no ? after them)
write_mh_ignores_errors(w, t, v) ==
    LET a == write_all(w, varint_encode(code(t, v)))
        b == write_all(a.w, varint_encode(size(t, v)))
        c == write_all(b.w, digest(v))
    IN  [res |-> Ok(v), w |-> c.w]

\* write_mh(w, mh): the result and the sink after it; each write_all is followed
\* by ?, so the first failure is returned (as Error::Io) and nothing more is written
write_mh(w, t, v) ==
    LET code_bytes == varint_encode(code(t, v))
        size_bytes == varint_encode(size(t, v))
        a == write_all(w, code_bytes)
        b == write_all(a.w, size_bytes)
        c == write_all(b.w, digest(v))
    IN  IF ~a.ok THEN [res |-> Err("Io", w.kind), w |-> a.w]
        ELSE IF ~b.ok THEN [res |-> Err("Io", w.kind), w |-> b.w]
        ELSE IF ~c.ok THEN [res |-> Err("Io", w.kind), w |-> c.w]
        ELSE [res |-> Ok(v), w |-> c.w]

\* to_bytes: write into an empty Vec
to_bytes(t, v) == write_mh(VecSink(<<>>), t, v).w.data

\* read_code(r)
read_code(r) == read_u64(r)

\* read_digest that takes the bytes the stream announces and pads them with
\* zeros (or cuts them) to S bytes instead of failing with InvalidSize
read_digest_padding(r, S) ==
    LET sz == read_u64(r)
    IN  IF sz.tag # "Ok"
        THEN {[tag |-> sz.tag, n |-> 0, digest |-> <<>>, rest |-> sz.rest]}
        ELSE IF Len(sz.rest) < sz.n
        THEN {[tag |-> "Io", n |-> 0, digest |-> <<>>, rest |-> x] : x \in {sz.rest, <<>>}}
        ELSE {[tag |-> "Ok", n |-> 0,
               digest |-> [i \in 1..S |-> IF i <= sz.n THEN sz.rest[i] ELSE 0],
               rest |-> SubSeq(sz.rest, sz.n + 1, Len(sz.rest))]}

\* read_digest that takes what the stream has (read in place of read_exact) and
\* leaves the rest of the digest zero
read_digest_short(r, S) ==
    LET sz == read_u64(r)
    IN  IF sz.tag # "Ok"
        THEN {[tag |-> sz.tag, n |-> 0, digest |-> <<>>, rest |-> sz.rest]}
        ELSE IF sz.n # S
        THEN {[tag |-> "InvalidSize", n |-> sz.n, digest |-> <<>>, rest |-> sz.rest]}
        ELSE {[tag |-> "Ok", n |-> 0,
               digest |-> [i \in 1..S |-> IF i <= Len(sz.rest) THEN sz.rest[i] ELSE 0],
               rest |-> SubSeq(sz.rest, S + 1, Len(sz.rest))]}

\* read_digest::<R, S, D>(r): the outcomes [tag, n, digest, rest].  After a short
\* read_exact the position of the reader is unspecified: nothing or everything
\* that was left has been consumed.
read_digest(r, S) ==
    LET sz == read_u64(r)
    IN  IF sz.tag # "Ok"
        THEN {[tag |-> sz.tag, n |-> 0, digest |-> <<>>, rest |-> sz.rest]}
        ELSE IF sz.n # S
        THEN {[tag |-> "InvalidSize", n |-> sz.n, digest |-> <<>>, rest |-> sz.rest]}
        ELSE IF Len(sz.rest) < S
        THEN {[tag |-> "Io", n |-> 0, digest |-> <<>>, rest |-> x] : x \in {sz.rest, <<>>}}
        ELSE {[tag |-> "Ok", n |-> 0, digest |-> SubSeq(sz.rest, 1, S),
               rest |-> SubSeq(sz.rest, S + 1, Len(sz.rest))]}

\* read that reads the size before it looks the code up
read_size_first(t, r) ==
    LET c == read_code(r)
        sz == read_u64(c.rest)
    IN  IF c.tag # "Ok" THEN {[res |-> Err(c.tag, 0), rest |-> c.rest]}
        ELSE IF sz.tag # "Ok" THEN {[res |-> Err(sz.tag, 0), rest |-> sz.rest]}
        ELSE IF ArmsFor(t, c.n) = {}
        THEN {[res |-> Err("UnsupportedCode", c.n), rest |-> sz.rest]}
        ELSE LET e == FirstArm(t, c.n)
             IN  {[res |-> IF d.tag = "Ok" THEN Ok(Variant(e, d.digest)) ELSE Err(d.tag, d.n),
                   rest |-> d.rest] : d \in read_digest(c.rest, e.digest.size)}

\* read that takes the whole of what is left for the digest and keeps its first
\* bytes
read_to_end(t, r) ==
    LET c == read_code(r)
    IN  IF c.tag # "Ok" THEN {[res |-> Err(c.tag, 0), rest |-> c.rest]}
        ELSE IF ArmsFor(t, c.n) = {}
        THEN {[res |-> Err("UnsupportedCode", c.n), rest |-> c.rest]}
        ELSE LET e == FirstArm(t, c.n)
             IN  {[res |-> IF d.tag = "Ok" THEN Ok(Variant(e, d.digest)) ELSE Err(d.tag, d.n),
                   rest |-> IF d.tag = "Ok" THEN <<>> ELSE d.rest]
                        : d \in read_digest(c.rest, e.digest.size)}

\* the generated read(r): the outcomes [res, rest]
read(t, r) ==
    LET c == read_code(r)
    IN  IF c.tag # "Ok" THEN {[res |-> Err(c.tag, 0), rest |-> c.rest]}
        ELSE IF ArmsFor(t, c.n) = {}
        THEN {[res |-> Err("UnsupportedCode", c.n), rest |-> c.rest]}
        ELSE LET e == FirstArm(t, c.n)
             IN  {[res |-> IF d.tag = "Ok" THEN Ok(Variant(e, d.digest)) ELSE Err(d.tag, d.n),
                   rest |-> d.rest] : d \in read_digest(c.rest, e.digest.size)}

\* from_bytes(bytes): read from a slice
from_bytes(t, bytes) == {o.res : o \in read(t, bytes)}


(***************************************************************************)
(* The validating derive of derive/src/multihash.rs.  Identifiers are      *)
(* sequences of characters; a code expression is its tokens together with  *)
(* the integer it evaluates to; an entry is named by its place in the enum.*)
(* A character is written as itself, or by its code point when it is not   *)
(* an ASCII character.                                                     *)
(***************************************************************************)
Digits == <<"0", "1", "2", "3", "4", "5", "6", "7", "8", "9">>
IsDigit(ch) == \E i \in 1..Len(Digits) : Digits[i] = ch
DigitValue(ch) == (CHOOSE i \in 1..Len(Digits) : Digits[i] = ch) - 1

RECURSIVE DecimalValue(_, _)
DecimalValue(str, k) ==
    IF k = 0 THEN 0 ELSE 10 * DecimalValue(str, k - 1) + DigitValue(str[k])

\* the code point of a character written U+ and hexadecimal digits
HexDigits == <<"0", "1", "2", "3", "4", "5", "6", "7", "8", "9", "A", "B", "C", "D", "E", "F">>
HexValue(ch) == (CHOOSE i \in 1..Len(HexDigits) : HexDigits[i] = ch) - 1

RECURSIVE HexNumber(_, _)
HexNumber(str, k) ==
    IF k = 0 THEN 0 ELSE 16 * HexNumber(str, k - 1) + HexValue(SubSeq(str, k, k))

CodePoint(ch) == HexNumber(SubSeq(ch, 3, Len(ch)), Len(ch) - 2)

\* the bytes a character takes in a str (UTF-8); a character written as itself
\* is an ASCII character
Utf8Len(ch) ==
    IF Len(ch) = 1 THEN 1
    ELSE IF CodePoint(ch) < 128 THEN 1
    ELSE IF CodePoint(ch) < 2048 THEN 2
    ELSE IF CodePoint(ch) < 65536 THEN 3
    ELSE 4

\* u64::MAX, 18446744073709551615, digit by digit
U64MaxDigits == <<"1", "8", "4", "4", "6", "7", "4", "4", "0", "7",
                  "3", "7", "0", "9", "5", "5", "1", "6", "1", "5">>

RECURSIVE StripZeros(_)
StripZeros(str) ==
    IF Len(str) > 1 /\ str[1] = "0" THEN StripZeros(Tail(str)) ELSE str

\* the number a string of digits writes does not fit a u64: decided on the digits,
\* by length and then place by place
Overflows(str) ==
    LET sig == StripZeros(str)
        n == Len(U64MaxDigits)
    IN  \/ Len(sig) > n
        \/ /\ Len(sig) = n
           /\ \E i \in 1..n :
                /\ \A j \in 1..(i - 1) : sig[j] = U64MaxDigits[j]
                /\ DigitValue(sig[i]) > DigitValue(U64MaxDigits[i])

\* str::parse::<u64>(): an optional plus sign and a non-empty string of decimal
\* digits that write a number up to u64::MAX
parse_u64(str) ==
    LET digits == IF str # <<>> /\ str[1] = "+" THEN Tail(str) ELSE str
    IN  IF digits = <<>> \/ \E i \in 1..Len(digits) : ~IsDigit(digits[i])
        THEN [ok |-> FALSE, n |-> 0]
        ELSE IF Overflows(digits) THEN [ok |-> FALSE, n |-> 0]
        ELSE [ok |-> TRUE, n |-> DecimalValue(digits, Len(digits))]

\* syn::Type: a path (its last segment's identifier) or another kind of type;
\* NoMaxSize stands for an enum without #[mh(max_size = ..)]
TypePath(id) == [kind |-> "Path", ident |-> id]
TypeInfer == [kind |-> "Infer", ident |-> <<>>]
NoMaxSize == [kind |-> "Missing", ident |-> <<>>]

\* parse_unsigned_typenum(typenum_path): Ok(n), Err, or the panic of
\* str::split_at(1) when byte 1 of the identifier is inside its first character
parse_unsigned_typenum(ty) ==
    IF ty.kind # "Path" THEN [ok |-> FALSE, n |-> 0, panic |-> FALSE]
    ELSE IF Utf8Len(ty.ident[1]) > 1 THEN [ok |-> FALSE, n |-> 0, panic |-> TRUE]
    ELSE IF ty.ident[1] = "U"
         THEN LET parsed == parse_u64(Tail(ty.ident))
              IN  [ok |-> parsed.ok, n |-> parsed.n, panic |-> FALSE]
         ELSE [ok |-> FALSE, n |-> 0, panic |-> FALSE]

\* the digest path of an entry: the type it names (the identifier of its last
\* segment) and the arguments of that segment
Angle(family, ty) == [family |-> family, args |-> "AngleBracketed", last |-> ty]
NoArguments(family) == [family |-> family, args |-> "None", last |-> TypeInfer]

\* the attributes an entry may lack
NoCode == [tokens |-> "", value |-> 0]
NoHasher == ""
NoDigest == [family |-> "", args |-> "Missing", last |-> TypeInfer]

\* a diagnostic; all of them are errors (emit_error!, abort!)
Diag(kind, entry, prev, n) ==
    [kind |-> kind, entry |-> entry, prev |-> prev, size |-> n, level |-> "error"]

\* parse_code_enum_attrs(ast): aborts on an enum without max_size
parse_code_enum_attrs(cat) ==
    IF cat.max_size = NoMaxSize
    THEN [ok |-> FALSE, emitted |-> <<Diag("MissingMaxSize", 0, 0, 0)>>]
    ELSE [ok |-> TRUE, emitted |-> <<>>]

\* Hash::from(variant): aborts on the first attribute the entry lacks, asking for
\* the code, then the hasher, then the digest
hash_from(h, i) ==
    IF h.code = NoCode THEN [ok |-> FALSE, emitted |-> <<Diag("MissingCode", i, 0, 0)>>]
    ELSE IF h.hasher = NoHasher
    THEN [ok |-> FALSE, emitted |-> <<Diag("MissingHasher", i, 0, 0)>>]
    ELSE IF h.digest = NoDigest
    THEN [ok |-> FALSE, emitted |-> <<Diag("MissingDigest", i, 0, 0)>>]
    ELSE [ok |-> TRUE, emitted |-> <<>>]

\* s.variants().iter().map(Hash::from).collect(): stops at the first abort
RECURSIVE hashes_from(_, _)
hashes_from(hs, i) ==
    IF i > Len(hs) THEN [ok |-> TRUE, emitted |-> <<>>]
    ELSE LET r == hash_from(hs[i], i)
         IN  IF r.ok THEN hashes_from(hs, i + 1) ELSE r

\* syn::Expr equality and hashing: by the expression as written
SameExpr(a, b) == a.tokens = b.tokens

\* error_code_duplicates(hashes): one error for every entry whose code is already
\* in the set, with a note on the entry that put it there.  (The errors are those
\* of the macro as built for use, emit_error! and abort!; the crate's own tests
\* build it to panic at the first error.)
RECURSIVE error_code_duplicates_from(_, _)
error_code_duplicates_from(hs, i) ==
    IF i > Len(hs) THEN <<>>
    ELSE LET uniq == {j \in 1..(i - 1) : \A k \in 1..(j - 1) : ~SameExpr(hs[k].code, hs[j].code)}
             seen == {j \in uniq : SameExpr(hs[j].code, hs[i].code)}
         IN  (IF seen = {} THEN <<>>
              ELSE <<Diag("DuplicateCode", i, CHOOSE j \in seen : TRUE, 0)>>)
             \o error_code_duplicates_from(hs, i + 1)

error_code_duplicates(hs) == error_code_duplicates_from(hs, 1)

\* the closure of error_max_size for one entry: Ok with the errors it emitted,
\* Err, or the panic of parse_unsigned_typenum
digest_size_check(h, i, expected_max_size) ==
    IF h.digest.args # "AngleBracketed"
    THEN [ok |-> FALSE, emitted |-> <<>>, panic |-> FALSE]
    ELSE LET parsed == parse_unsigned_typenum(h.digest.last)
         IN  IF parsed.panic THEN [ok |-> FALSE, emitted |-> <<>>, panic |-> TRUE]
             ELSE IF ~parsed.ok THEN [ok |-> FALSE, emitted |-> <<>>, panic |-> FALSE]
             ELSE [ok |-> TRUE,
                   emitted |-> IF parsed.n > expected_max_size
                               THEN <<Diag("MaxSizeExceeded", i, 0, parsed.n)>>
                               ELSE <<>>,
                   panic |-> FALSE]

\* hashes.iter().map(..).collect::<Result<(), ParseError>>(): stops at the first
\* Err, which is reported as 'Invalid byte size'; a panic ends it with what was
\* emitted before
RECURSIVE collect_from(_, _, _)
collect_from(hs, i, expected_max_size) ==
    IF i > Len(hs) THEN [emitted |-> <<>>, panic |-> FALSE]
    ELSE LET r == digest_size_check(hs[i], i, expected_max_size)
             rest == collect_from(hs, i + 1, expected_max_size)
         IN  IF r.panic THEN [emitted |-> <<>>, panic |-> TRUE]
             ELSE IF r.ok THEN [emitted |-> r.emitted \o rest.emitted, panic |-> rest.panic]
             ELSE [emitted |-> <<Diag("InvalidByteSize", i, 0, 0)>>, panic |-> FALSE]

\* error_max_size that emits warnings (emit_warning!) where it has to emit errors
error_max_size_warns(hs, expected_max_size) ==
    LET r == collect_from(hs, 1, expected_max_size)
    IN  [emitted |-> [i \in 1..Len(r.emitted) |-> [r.emitted[i] EXCEPT !.level = "warning"]],
         panic |-> r.panic]

\* error_max_size(hashes, expected_max_size_type), given the parsed max_size
error_max_size(hs, expected_max_size) == collect_from(hs, 1, expected_max_size)

\* multihash(s): the diagnostics emitted, and whether the expansion ran to its
\* end, was aborted (abort!) or panicked
multihash(cat) ==
    LET attrs == parse_code_enum_attrs(cat)
        variants == hashes_from(cat.hashes, 1)
        dups == error_code_duplicates(cat.hashes)
        max == parse_unsigned_typenum(cat.max_size)
        sizes == error_max_size(cat.hashes, max.n)
    IN  IF ~attrs.ok THEN [outcome |-> "aborted", diags |-> attrs.emitted]
        ELSE IF ~variants.ok THEN [outcome |-> "aborted", diags |-> variants.emitted]
        ELSE IF cat.no_max_size_errors THEN [outcome |-> "expanded", diags |-> dups]
        ELSE IF max.panic THEN [outcome |-> "panicked", diags |-> dups]
        ELSE IF ~max.ok
        THEN [outcome |-> "aborted", diags |-> Append(dups, Diag("MalformedMaxSize", 0, 0, 0))]
        ELSE [outcome |-> IF sizes.panic THEN "panicked" ELSE "expanded",
              diags |-> dups \o sizes.emitted]

\* the impls of the quote! at the end of multihash: the entries and MaxSize
NoRegistry == [hashes |-> <<>>, max_size |-> TypeInfer, built |-> FALSE]
Generated(cat) == [hashes |-> cat.hashes, max_size |-> cat.max_size, built |-> TRUE]

\* the derive's entry point under #[proc_macro_error]: the tokens multihash
\* returns are the output of the macro unless an error was emitted, the
\* expansion was aborted or it panicked; then the output holds no impl
entry_point(cat) ==
    LET expansion == multihash(cat)
        failed == \/ expansion.outcome # "expanded"
                  \/ \E i \in 1..Len(expansion.diags) : expansion.diags[i].level = "error"
    IN  [outcome |-> expansion.outcome, diags |-> expansion.diags,
         registry |-> IF failed THEN NoRegistry ELSE Generated(cat)]

\* the compiler on the impls: fn digest matches on &self with one arm per entry,
\* which is not exhaustive for an enum without entries; the expansion holds one
\* impl From<&digest> for the code enum per entry, so two entries of one digest
\* type are conflicting impls, and a digest type written with _ is a placeholder
\* in an impl header
Compiles(reg) ==
    /\ Len(reg.hashes) > 0
    /\ \A i \in 1..Len(reg.hashes) : \A j \in 1..Len(reg.hashes) :
            i # j => reg.hashes[i].digest # reg.hashes[j].digest
    /\ \A i \in 1..Len(reg.hashes) :
            ~(reg.hashes[i].digest.args = "AngleBracketed"
                /\ reg.hashes[i].digest.last.kind = "Infer")

\* the impls the crate has after the derive: those of the expansion if the
\* compiler takes them
crate_impls(reg) == IF reg.built /\ Compiles(reg) THEN reg ELSE NoRegistry

\* a value of the generated code enum is named by the place of its entry
OkCode(i) == [tag |-> "Ok", mh |-> NoValue, n |-> i]

\* impl From<#code_enum> for u64: match code { #code_enum::#ident => #code }
code_into_u64(reg, i) == reg.hashes[i].code.value

\* impl TryFrom<u64> for #code_enum: match code { #code => Ok(Self::#ident),
\*                                                _ => Err(UnsupportedCode(code)) }
code_from_u64(reg, n) ==
    LET arms == {i \in 1..Len(reg.hashes) : reg.hashes[i].code.value = n}
    IN  IF arms = {} THEN Err("UnsupportedCode", n)
        ELSE OkCode(CHOOSE i \in arms : \A j \in arms : i <= j)

\* the hasher a hasher attribute names: its entry in src/code.rs
HasherOf(h) == CHOOSE e \in Range(CodeTable) : e.hasher = h

\* MaxSize::to_usize() of the generated impl
MaxSizeOf(reg) == parse_unsigned_typenum(reg.max_size).n

\* Multihash::wrap(code, input_digest): a Multihash<MaxSize> holds at most
\* MaxSize digest bytes
wrap(c, d, max) ==
    IF Len(d) > max THEN Err("InvalidSize", Len(d))
    ELSE [tag |-> "Ok", mh |-> [ident |-> "Multihash", digest |-> d], n |-> c]

\* Result::unwrap
unwrap(r) == IF r.tag = "Ok" THEN r ELSE Err("Panic", r.n)

\* fn digest(&self, input): match self { Self::#ident => {
\*     let digest = #hasher::digest(input); Multihash::wrap(#code, &digest.as_ref()).unwrap() } }
code_digest(reg, i, input) ==
    LET h == reg.hashes[i]
    IN  unwrap(wrap(h.code.value, HasherDigest(HasherOf(h.hasher), input), MaxSizeOf(reg)))

\* fn multihash_from_digest(digest): the digest is of the type entry i declares,
\* Self::from(&digest) is the variant of the From impl generated for that type
multihash_from_digest(reg, i, d) ==
    unwrap(wrap(code_into_u64(reg, i), d, MaxSizeOf(reg)))

\* the enums handed to the derive
CodeExprs == {[tokens |-> "0x14", value |-> 20],
              [tokens |-> "20", value |-> 20],
              [tokens |-> "0x12", value |-> 18]}
U16 == TypePath(<<"U", "1", "6">>)
U32 == TypePath(<<"U", "3", "2">>)
U64 == TypePath(<<"U", "6", "4">>)
Foo == TypePath(<<"f", "o", "o">>)
\* U18446744073709551616, one above u64::MAX
UTooBig == TypePath(<<"U">> \o [U64MaxDigits EXCEPT ![20] = "6"])
\* identifiers that begin with a character of two, three and four bytes: the U
\* with diaeresis, a CJK ideograph, a Deseret letter
UUmlaut32 == TypePath(<<"U+00DC", "3", "2">>)
Cjk32 == TypePath(<<"U+4E2D", "3", "2">>)
Deseret32 == TypePath(<<"U+10400", "3", "2">>)
MaxSizeTypes == {U16, U32, Foo, UTooBig, UUmlaut32, Cjk32, Deseret32, NoMaxSize}
\* the hasher and digest attributes of an entry: hasher and digest type agree, the
\* digest type names a shorter digest than the hasher makes, or the digest type
\* has no typenum size
Attrs == {[hasher |-> "Sha2_256", digest |-> Angle("Sha2Digest", U32)],
          [hasher |-> "Sha3_256", digest |-> Angle("Sha3Digest", U32)],
          [hasher |-> "Sha2_512", digest |-> Angle("Sha2Digest", U64)],
          [hasher |-> "Sha2_512", digest |-> Angle("Sha2Digest", U32)],
          [hasher |-> "Sha2_256", digest |-> Angle("Sha2Digest", Foo)],
          [hasher |-> "Sha2_256", digest |-> Angle("Sha2Digest", TypeInfer)],
          [hasher |-> "Sha2_256", digest |-> NoArguments("Sha2_256Digest")],
          [hasher |-> "Sha2_256", digest |-> Angle("Sha2Digest", UUmlaut32)]}
\* the entries: every code with every pair of attributes, and entries that lack
\* an attribute
Hashes ==
    {[code |-> c, hasher |-> a.hasher, digest |-> a.digest] : c \in CodeExprs, a \in Attrs}
        \cup {[code |-> NoCode, hasher |-> NoHasher, digest |-> Angle("Sha2Digest", U32)],
              [code |-> [tokens |-> "0x12", value |-> 18], hasher |-> NoHasher, digest |-> NoDigest],
              [code |-> [tokens |-> "0x12", value |-> 18], hasher |-> "Sha2_256", digest |-> NoDigest]}
\* the integers handed to try_from: the codes written in the enums and one more
CodeValues == {c.value : c \in CodeExprs} \cup {3}
Catalogs == [max_size : MaxSizeTypes, no_max_size_errors : BOOLEAN,
             hashes : SeqsUpTo(Hashes, MaxEntries)]
NoCatalog == [max_size |-> TypeInfer, no_max_size_errors |-> FALSE, hashes |-> <<>>]

(***************************************************************************)
(* The calls.                                                              *)
(***************************************************************************)
NoType == [family |-> "", size |-> 0]

Call(op, c, input, dty, src, res) ==
    [op |-> op, code |-> c, input |-> input, dty |-> dty, src |-> src, res |-> res]

\* codes passed to new: every declared code and codes of no table
DeclaredCodes(t) == {e.code : e \in Range(hashes(t))}
CodeArgs(t) == DeclaredCodes(t) \cup {3, 4, 162, 45601}

\* The model's integers are narrower than u64: read is called on streams whose
\* leading varints take at most four bytes, or do not end at all.
Narrow(s) == varint_end(s) <= 4
InRange(s) ==
    /\ Narrow(s)
    /\ LET i == varint_end(s) IN i > 0 => Narrow(SubSeq(s, i + 1, Len(s)))

Init ==
    /\ table \in TableNames
    /\ mh = NoValue
    /\ buf = <<>>
    /\ fed = 0
    /\ last = Call("init", 0, <<>>, NoType, <<>>, Err("None", 0))
    /\ catalog = NoCatalog
    /\ diags = <<>>
    /\ outcome = "none"
    /\ registry = NoRegistry

\* Multihash::new(code, input); the caller makes its value before it uses the stream
New(c, input) ==
    /\ buf = <<>>
    /\ last' = Call("new", c, input, NoType, <<>>, new(table, c, input))
    /\ mh' = IF last'.res.tag = "Ok" THEN last'.res.mh ELSE mh
    /\ UNCHANGED <<table, buf, fed, derive_vars>>

\* Multihash::from(digest), the digest computed by the caller with the entry's hasher
FromDigest(e, input) ==
    /\ buf = <<>>
    /\ mh' = from_digest(table, e.digest, HasherDigest(e, input))
    /\ last' = Call("from_digest", 0, input, e.digest, <<>>, Ok(mh'))
    /\ UNCHANGED <<table, buf, fed, derive_vars>>

\* mh.write(&mut buf), buf a Vec
Write ==
    /\ mh # NoValue
    /\ Len(buf) <= MaxFeed
    /\ LET written == write_mh(VecSink(buf), table, mh)
       IN  /\ buf' = written.w.data
           /\ last' = Call("write", 0, <<>>, NoType, buf, written.res)
    /\ UNCHANGED <<table, mh, fed, derive_vars>>

\* the room of the bounded sinks a value is written to: little room, and room for
\* the value's encoding (the [0u8; 35] of the roundtrip test), a byte less and a
\* byte more
Rooms(t, v) ==
    LET n == Len(to_bytes(t, v)) IN (0..MaxRoom) \cup {n - 1, n, n + 1}

\* mh.write(sink), the sink a fresh one with room for so many bytes and failing
\* with the error kind; what it took is the stream.  The call records the room
\* as its number and the kind as its input.
WriteSlice(room, kind) ==
    /\ mh # NoValue
    /\ buf = <<>>
    /\ fed = 0
    /\ LET written == write_mh(Slice(room, kind), table, mh)
       IN  /\ buf' = written.w.data
           /\ last' = Call("write_slice", room, <<kind>>, NoType, <<>>, written.res)
    /\ UNCHANGED <<table, mh, fed, derive_vars>>

\* Multihash::read(&mut buf)
Read ==
    /\ InRange(buf)
    /\ \E o \in read(table, buf) :
        /\ buf' = o.rest
        /\ last' = Call("read", 0, <<>>, NoType, buf, o.res)
    /\ UNCHANGED <<table, mh, fed, derive_vars>>

\* read_code(&mut buf): the code varint alone
ReadCode ==
    /\ Narrow(buf)
    /\ LET c == read_code(buf)
       IN  /\ buf' = c.rest
           /\ last' = Call("read_code", 0, <<>>, NoType, buf,
                            IF c.tag = "Ok" THEN [tag |-> "Ok", mh |-> NoValue, n |-> c.n]
                            ELSE Err(c.tag, c.n))
    /\ UNCHANGED <<table, mh, fed, derive_vars>>

\* read_digest::<_, S, D>(&mut buf) for a digest type of the table: the size varint
\* and the digest; the call records the digest it returned as its bytes
ReadDigest(dty) ==
    /\ Narrow(buf)
    /\ \E d \in read_digest(buf, dty.size) :
        /\ buf' = d.rest
        /\ last' = Call("read_digest", 0, IF d.tag = "Ok" THEN d.digest ELSE <<>>, dty, buf,
                         IF d.tag = "Ok" THEN [tag |-> "Ok", mh |-> NoValue, n |-> dty.size]
                         ELSE Err(d.tag, d.n))
    /\ UNCHANGED <<table, mh, fed, derive_vars>>

\* the environment puts a byte into the stream
Feed(b) ==
    /\ fed < MaxFeed
    /\ buf' = Append(buf, b)
    /\ fed' = fed + 1
    /\ last' = Call("feed", 0, <<>>, NoType, buf, Err("None", 0))
    /\ UNCHANGED <<table, mh, derive_vars>>

\* The two halves of read are public too.  Here they are called by a reader that
\* decodes by hand what was written: the code, and then the digest of the type
\* that code declares; SpecStream calls them on any stream, with any digest type.
Next ==
    \/ \E c \in CodeArgs(table), input \in Inputs : New(c, input)
    \/ \E e \in Range(hashes(table)), input \in Inputs : FromDigest(e, input)
    \/ Write
    \/ mh # NoValue /\ \E room \in Rooms(table, mh), kind \in SinkErrors : WriteSlice(room, kind)
    \/ Read
    \/ last.op \in {"write", "write_slice"} /\ ReadCode
    \/ /\ last.op = "read_code" /\ last.res.tag = "Ok"
       /\ \E e \in Range(hashes(table)) : e.code = last.res.n /\ ReadDigest(e.digest)
    \/ \E b \in FeedBytes : Feed(b)

Spec == Init /\ [][Next]_vars

\* #[derive(Multihash)] on an enum of a crate: one expansion, and the compiler on
\* its output
Derive(cat) ==
    /\ outcome = "none"
    /\ catalog' = cat
    /\ LET expanded == entry_point(cat)
       IN  /\ diags' = expanded.diags
           /\ outcome' = expanded.outcome
           /\ registry' = crate_impls(expanded.registry)
    /\ UNCHANGED codec_vars

\* u64::from(code) for the variant of entry i
IntoU64(i) ==
    /\ i \in 1..Len(registry.hashes)
    /\ last' = Call("into_u64", i, <<>>, NoType, <<>>,
                     [tag |-> "Ok", mh |-> NoValue, n |-> code_into_u64(registry, i)])
    /\ UNCHANGED <<table, mh, buf, fed, derive_vars>>

\* Code::try_from(n)
TryFrom(n) ==
    /\ last' = Call("try_from", n, <<>>, NoType, <<>>, code_from_u64(registry, n))
    /\ UNCHANGED <<table, mh, buf, fed, derive_vars>>

\* code.digest(input) for the variant of entry i; MaxSize is a typenum
CodeDigest(i, input) ==
    /\ i \in 1..Len(registry.hashes)
    /\ parse_unsigned_typenum(registry.max_size).ok
    /\ last' = Call("digest", i, input, NoType, <<>>, code_digest(registry, i, input))
    /\ UNCHANGED <<table, mh, buf, fed, derive_vars>>

\* Code::multihash_from_digest(&digest), the digest made by a hasher of the digest
\* type entry i declares; that type and MaxSize are typenum-sized
MultihashFromDigest(i, input) ==
    /\ i \in 1..Len(registry.hashes)
    /\ parse_unsigned_typenum(registry.max_size).ok
    /\ registry.hashes[i].digest.args = "AngleBracketed"
    /\ parse_unsigned_typenum(registry.hashes[i].digest.last).ok
    /\ LET n == parse_unsigned_typenum(registry.hashes[i].digest.last).n
           d == [k \in 1..n |-> (k + 7 * Len(input) + 13 * SumSeq(input)) % 256]
       IN  last' = Call("multihash_from_digest", i, input,
                        [family |-> registry.hashes[i].digest.family, size |-> n], <<>>,
                        multihash_from_digest(registry, i, d))
    /\ UNCHANGED <<table, mh, buf, fed, derive_vars>>

\* the code that uses the generated impls exists only if the derive put them
\* into the crate; no call changes them, so every call is taken from the state
\* the expansion left
Served ==
    /\ registry.built
    /\ last.op = "init"
    /\ \/ \E i \in 1..MaxEntries : IntoU64(i)
       \/ \E n \in CodeValues : TryFrom(n)
       \/ \E i \in 1..MaxEntries, input \in Inputs : CodeDigest(i, input)
       \/ \E i \in 1..MaxEntries, input \in Inputs : MultihashFromDigest(i, input)

\* the derive expands an enum once
NextDerive ==
    \/ outcome = "none" /\ \E cat \in Catalogs : Derive(cat)
    \/ Served

InitDerive == Init /\ table = "code"

SpecDerive == InitDerive /\ [][NextDerive]_vars

\* read applied to arbitrary streams
InitStream ==
    /\ table \in TableNames
    /\ mh = NoValue
    /\ buf \in Streams
    /\ fed = 0
    /\ last = Call("init", 0, <<>>, NoType, <<>>, Err("None", 0))
    /\ catalog = NoCatalog
    /\ diags = <<>>
    /\ outcome = "none"
    /\ registry = NoRegistry

NextStream ==
    \/ Read
    \/ ReadCode
    \/ \E e \in Range(hashes(table)) : ReadDigest(e.digest)

SpecStream == InitStream /\ [][NextStream]_vars

\* hash == hash2 on two values of one table.  The values are those new makes of
\* the inputs and those read makes of streams whose digest bytes are all alike.
FillBytes == {0, 255}
SampleValues(t) ==
    {Variant(e, HasherDigest(e, input)) : e \in Range(hashes(t)), input \in Inputs}
        \cup {Variant(e, [i \in 1..e.digest.size |-> b]) : e \in Range(hashes(t)), b \in FillBytes}

InitEq ==
    /\ table \in TableNames
    /\ mh \in SampleValues(table)
    /\ buf = <<>>
    /\ fed = 0
    /\ last = Call("init", 0, <<>>, NoType, <<>>, Err("None", 0))
    /\ catalog = NoCatalog
    /\ diags = <<>>
    /\ outcome = "none"
    /\ registry = NoRegistry

\* mh == v: the call records the other value and the answer
Compare(v) ==
    /\ last.op = "init"
    /\ last' = Call("eq", 0, <<>>, NoType, <<>>,
                     [tag |-> IF eq(mh, v) THEN "Equal" ELSE "Unequal", mh |-> v, n |-> 0])
    /\ UNCHANGED <<table, mh, buf, fed, derive_vars>>

NextEq == \E v \in SampleValues(table) : Compare(v)

SpecEq == InitEq /\ [][NextEq]_vars

(***************************************************************************)
(* Vocabulary of the properties, stated apart from the codec's operators.  *)
(***************************************************************************)
\* the entry declaring code c, and the entry of a digest type
Declared(t, c) == CHOOSE e \in Range(hashes(t)) : e.code = c
OwnerOf(t, dty) == CHOOSE e \in Range(hashes(t)) : e.digest = dty

\* bytes is a little-endian base-128 encoding of n: the high bit is set on all
\* bytes but the last and the 7-bit groups, least significant first, make n
RECURSIVE Groups(_, _)
Groups(bytes, k) ==
    IF k = 0 THEN 0 ELSE (bytes[k] % 128) * (128 ^ (k - 1)) + Groups(bytes, k - 1)
IsVarint(bytes, n) ==
    /\ Len(bytes) \in 1..4
    /\ \A i \in 1..Len(bytes) : (bytes[i] >= 128) <=> (i < Len(bytes))
    /\ Groups(bytes, Len(bytes)) = n

\* the decoder takes bytes for n: a varint of n in its shortest form
Decodes(bytes, n) ==
    /\ IsVarint(bytes, n)
    /\ Len(bytes) > 1 => bytes[Len(bytes)] # 0

varintLen(n) == IF n < 128 THEN 1 ELSE IF n < 16384 THEN 2 ELSE IF n < 2097152 THEN 3 ELSE 4

(***************************************************************************)
(* C1: round trip.  Reading the bytes write produced for a value obtained  *)
(* by new or from a digest succeeds and returns an equal value: the same   *)
(* variant (code) and the same digest bytes.                               *)
(***************************************************************************)
RoundTrip ==
    (last.op = "read" /\ mh # NoValue /\ last.src = to_bytes(table, mh))
        => /\ last.res.tag = "Ok"
           /\ last.res.mh = mh
           /\ code(table, last.res.mh) = code(table, mh)
           /\ digest(last.res.mh) = digest(mh)

\* a value with a three-byte code varint was written and read back
RoundTripWitness ==
    /\ last.op = "read"
    /\ mh # NoValue
    /\ last.src = to_bytes(table, mh)
    /\ last.res = Ok(mh)
    /\ code(table, mh) = 45600
    /\ buf = <<>>

(***************************************************************************)
(* C2: layout.  write appends to the sink the varint of the code, then the *)
(* varint of the size (the declared length of the variant), then the raw   *)
(* digest bytes, and nothing else; the encoding is                         *)
(* varintLen(code) + varintLen(size) + size bytes long, 35 bytes for code  *)
(* 0xa0 with a 32-byte digest.                                             *)
(***************************************************************************)
WriteLayout ==
    last.op = "write" =>
        LET e == CHOOSE x \in Range(hashes(table)) : x.ident = mh.ident
            pre == Len(last.src)
            a == varintLen(e.code)
            b == varintLen(e.digest.size)
        IN  /\ Len(buf) = pre + a + b + e.digest.size
            /\ SubSeq(buf, 1, pre) = last.src
            /\ IsVarint(SubSeq(buf, pre + 1, pre + a), e.code)
            /\ IsVarint(SubSeq(buf, pre + a + 1, pre + a + b), e.digest.size)
            /\ SubSeq(buf, pre + a + b + 1, Len(buf)) = mh.digest
            /\ (e.code = 160 /\ e.digest.size = 32) => Len(buf) - pre = 35

\* Strobe256 (code 0xa0) was written to a sink that already held a byte
WriteLayoutWitness ==
    /\ last.op = "write"
    /\ mh.ident = "Strobe256"
    /\ Len(last.src) = 1
    /\ Len(buf) = 36

(***************************************************************************)
(* C3: read on a stream whose leading varint decodes to a code outside the *)
(* table fails with UnsupportedCode of exactly that code whatever follows, *)
(* a missing or wrong size included, and produces no value.                *)
(***************************************************************************)
ReadUnsupportedCode ==
    \A k \in 1..Min(Len(last.src), 4) :
        LET head == SubSeq(last.src, 1, k)
        IN  (/\ last.op = "read"
             /\ Decodes(head, Groups(head, k))
             /\ Groups(head, k) \notin {e.code : e \in Range(hashes(table))})
                => /\ last.res.tag = "UnsupportedCode"
                   /\ last.res.n = Groups(head, k)
                   /\ last.res.mh = NoValue
                   /\ buf = SubSeq(last.src, k + 1, Len(last.src))

\* a two-byte code of no table (128) with nothing after it
ReadUnsupportedCodeWitness ==
    /\ last.op = "read"
    /\ last.src = <<128, 1>>
    /\ last.res = Err("UnsupportedCode", 128)

(***************************************************************************)
(* C4: read on a stream with a declared code whose size varint differs     *)
(* from the declared digest length of that code's variant fails with       *)
(* InvalidSize of the size read, for smaller and larger sizes alike; no    *)
(* value is made by truncating or padding.                                 *)
(***************************************************************************)
ReadInvalidSize ==
    \A k \in 1..Min(Len(last.src), 4) : \A m \in (k + 1)..Min(Len(last.src), k + 4) :
        LET head == SubSeq(last.src, 1, k)
            next == SubSeq(last.src, k + 1, m)
            c == Groups(head, k)
            n == Groups(next, m - k)
        IN  (/\ last.op = "read"
             /\ Decodes(head, c)
             /\ Decodes(next, n)
             /\ c \in {e.code : e \in Range(hashes(table))}
             /\ n # Declared(table, c).digest.size)
                => /\ last.res.tag = "InvalidSize"
                   /\ last.res.n = n
                   /\ last.res.mh = NoValue

\* Sha2_256 (32 bytes) announced with size 3 and three bytes to take
ReadInvalidSizeWitness ==
    /\ last.op = "read"
    /\ table = "code"
    /\ Len(last.src) >= 2 /\ last.src[1] = 18 /\ last.src[2] = 3
    /\ last.res = Err("InvalidSize", 3)

\* Foo (32 bytes) announced with size 64
ReadInvalidSizeLarger ==
    /\ last.op = "read"
    /\ table = "custom_table"
    /\ Len(last.src) >= 2 /\ last.src[1] = 1 /\ last.src[2] = 64
    /\ last.res = Err("InvalidSize", 64)

(***************************************************************************)
(* C5: new(code, input) succeeds exactly for the declared codes: it        *)
(* returns the variant of that code wrapping the digest of its hasher, and *)
(* fails with UnsupportedCode of the requested code otherwise.             *)
(***************************************************************************)
NewByCode ==
    last.op = "new" =>
        LET declared == {e.code : e \in Range(hashes(table))}
        IN  /\ (last.res.tag = "Ok") <=> (last.code \in declared)
            /\ last.code \in declared =>
                /\ last.res.mh.ident = Declared(table, last.code).ident
                /\ last.res.mh.digest = HasherDigest(Declared(table, last.code), last.input)
            /\ last.code \notin declared => last.res = Err("UnsupportedCode", last.code)
            /\ table = "custom_table" => ((last.res.tag = "Ok") <=> (last.code \in {1, 2}))

\* the custom table rejects code 3
NewByCodeWitness ==
    /\ last.op = "new"
    /\ table = "custom_table"
    /\ last.code = 3
    /\ last.res = Err("UnsupportedCode", 3)

\* the custom table accepts code 2
NewByCodeAccepts ==
    /\ last.op = "new"
    /\ table = "custom_table"
    /\ last.code = 2
    /\ last.res.tag = "Ok" /\ last.res.mh.ident = "Bar"

(***************************************************************************)
(* C6: every value, made by new, from a digest or by a successful read,    *)
(* has size(v) equal to the number of its digest bytes, and both equal the *)
(* digest length declared for the variant of its code.                     *)
(***************************************************************************)
Values == {v \in {mh, last.res.mh} : v # NoValue}

SizeIsDigestLength ==
    \A v \in Values :
        /\ size(table, v) = Len(digest(v))
        /\ Len(digest(v)) = Declared(table, code(table, v)).digest.size

\* a value came out of a successful read
SizeIsDigestLengthWitness ==
    /\ last.op = "read"
    /\ last.res.tag = "Ok"
    /\ size(table, last.res.mh) = 64
    /\ Len(digest(last.res.mh)) = 64

(***************************************************************************)
(* C7: from a digest.  Wrapping the digest a hasher computed yields the    *)
(* value new returns for the entry's code and the same input: its code is  *)
(* the entry's code and its digest bytes are the given bytes.              *)
(***************************************************************************)
FromDigestAgrees ==
    last.op = "from_digest" =>
        LET e == OwnerOf(table, last.dty)
        IN  /\ last.res = new(table, e.code, last.input)
            /\ code(table, last.res.mh) = e.code
            /\ digest(last.res.mh) = HasherDigest(e, last.input)

\* a Strobe512 digest of a non-empty input was wrapped
FromDigestAgreesWitness ==
    /\ last.op = "from_digest"
    /\ last.input # <<>>
    /\ last.res.mh.ident = "Strobe512"
    /\ mh = last.res.mh

(***************************************************************************)
(* Vocabulary of the validation properties.                                *)
(***************************************************************************)
\* the expansion ran to its end and emitted no error
Accepted == outcome = "expanded" /\ diags = <<>>

Reported == Range(diags)

\* an enum as the specification has it: it has a max_size and every entry has
\* its code, its hasher and its digest type
WellFormed(cat) ==
    /\ cat.max_size # NoMaxSize
    /\ \A i \in 1..Len(cat.hashes) :
            /\ cat.hashes[i].code # NoCode
            /\ cat.hashes[i].hasher # NoHasher
            /\ cat.hashes[i].digest # NoDigest

\* a type written as an unsigned typenum: the letter U and a decimal number of
\* 64 bits
IsTypenum(ty) ==
    /\ ty.kind = "Path"
    /\ Len(ty.ident) >= 2
    /\ ty.ident[1] = "U"
    /\ \A i \in 2..Len(ty.ident) : IsDigit(ty.ident[i])
    /\ ~Overflows(Tail(ty.ident))

\* the typenum size an entry's digest type is written with, when it has one
HasByteLength(h) == h.digest.args = "AngleBracketed" /\ IsTypenum(h.digest.last)
ByteLength(h) == DecimalValue(Tail(h.digest.last.ident), Len(h.digest.last.ident) - 1)

(***************************************************************************)
(* C8: in every enum the validation accepts, the codes of the entries are  *)
(* pairwise distinct as integers, however they are written.                *)
(***************************************************************************)
AcceptedCodesDistinct ==
    Accepted =>
        \A i \in 1..Len(catalog.hashes) : \A j \in 1..Len(catalog.hashes) :
            i # j => catalog.hashes[i].code.value # catalog.hashes[j].code.value

(***************************************************************************)
(* C9: for every pair of entries with the same code, a DuplicateCode       *)
(* diagnostic naming the two entries of the pair is reported in the one    *)
(* validation pass.                                                        *)
(***************************************************************************)
EveryDuplicatePairReported ==
    (outcome # "none" /\ WellFormed(catalog)) =>
        \A i \in 1..Len(catalog.hashes) : \A j \in 1..Len(catalog.hashes) :
            (i < j /\ catalog.hashes[i].code.value = catalog.hashes[j].code.value)
                => \E d \in Reported :
                    d.kind = "DuplicateCode" /\ {d.entry, d.prev} = {i, j}

\* the same for pairs whose codes are written alike: three entries sharing one
\* code give two diagnostics, both noting the first entry
EveryTextualPairReported ==
    (outcome # "none" /\ WellFormed(catalog)) =>
        \A i \in 1..Len(catalog.hashes) : \A j \in 1..Len(catalog.hashes) :
            (i < j /\ catalog.hashes[i].code.tokens = catalog.hashes[j].code.tokens)
                => \E d \in Reported :
                    d.kind = "DuplicateCode" /\ {d.entry, d.prev} = {i, j}

(***************************************************************************)
(* C10: with enforcement on, MaxSizeExceeded is reported for every entry   *)
(* whose digest byte length is greater than max_size and for no other, so  *)
(* every accepted enum has all lengths within max_size; with enforcement   *)
(* off no size diagnostic is reported.                                     *)
(***************************************************************************)
MaxSizeChecked ==
    (outcome # "none" /\ WellFormed(catalog)) =>
        LET max == parse_unsigned_typenum(catalog.max_size)
            hs == catalog.hashes
            exceeded == {d.entry : d \in {x \in Reported : x.kind = "MaxSizeExceeded"}}
        IN  /\ (~catalog.no_max_size_errors /\ max.ok) =>
                \A i \in 1..Len(hs) :
                    (i \in exceeded) <=> (HasByteLength(hs[i]) /\ ByteLength(hs[i]) > max.n)
            /\ (~catalog.no_max_size_errors /\ Accepted) =>
                \A i \in 1..Len(hs) : HasByteLength(hs[i]) /\ ByteLength(hs[i]) <= max.n
            /\ catalog.no_max_size_errors =>
                \A d \in Reported : d.kind = "DuplicateCode"

(***************************************************************************)
(* C11: with enforcement on (the case in which the specification lets the  *)
(* bound be checked), an enum whose max_size is not an unsigned typenum of *)
(* 64 bits is never accepted: the derive aborts, and MalformedMaxSize is   *)
(* among its diagnostics.                                                  *)
(***************************************************************************)
MalformedMaxSizeFatal ==
    (/\ outcome # "none"
     /\ WellFormed(catalog)
     /\ ~catalog.no_max_size_errors
     /\ ~IsTypenum(catalog.max_size))
        => /\ outcome = "aborted"
           /\ ~Accepted
           /\ \E d \in Reported : d.kind = "MalformedMaxSize"

\* C11 as it reads, whether the max-size errors are on or off
MalformedMaxSizeAlwaysFatal ==
    (outcome # "none" /\ WellFormed(catalog) /\ ~IsTypenum(catalog.max_size))
        => /\ outcome = "aborted"
           /\ \E d \in Reported : d.kind = "MalformedMaxSize"

\* what the derive does for every max_size but those that begin with a character
\* of more than one byte
MalformedMaxSizeFatalButPanic ==
    (/\ outcome # "none"
     /\ WellFormed(catalog)
     /\ ~catalog.no_max_size_errors
     /\ ~IsTypenum(catalog.max_size)
     /\ catalog.max_size.kind = "Path"
     /\ Utf8Len(catalog.max_size.ident[1]) = 1)
        => /\ outcome = "aborted"
           /\ \E d \in Reported : d.kind = "MalformedMaxSize"

\* max_size = foo on an enum of two entries with codes written differently
MalformedMaxSizeAborts ==
    /\ outcome = "aborted"
    /\ ~catalog.no_max_size_errors
    /\ catalog.max_size = Foo
    /\ Len(catalog.hashes) = 2
    /\ diags = <<Diag("MalformedMaxSize", 0, 0, 0)>>

\* max_size = U18446744073709551616
MalformedMaxSizeOverflow ==
    /\ outcome = "aborted"
    /\ catalog.max_size = UTooBig
    /\ diags = <<Diag("MalformedMaxSize", 0, 0, 0)>>

\* max_size begins with U+00DC: the derive panics and has reported nothing
MalformedMaxSizePanics ==
    /\ outcome = "panicked"
    /\ ~catalog.no_max_size_errors
    /\ catalog.max_size = UUmlaut32
    /\ diags = <<>>
    /\ registry = NoRegistry

(***************************************************************************)
(* C12: validation is exhaustive.  Every fault of every entry is reported  *)
(* whatever the other entries and the other check report: a code written   *)
(* like an earlier entry's gets DuplicateCode and, with enforcement on and *)
(* a well-formed max_size, a digest size above max_size gets               *)
(* MaxSizeExceeded and a digest without a typenum size gets                *)
(* 'Invalid byte size'.                                                    *)
(***************************************************************************)
ValidationExhaustive ==
    (outcome # "none" /\ WellFormed(catalog)) =>
        LET hs == catalog.hashes
            sizes == ~catalog.no_max_size_errors /\ IsTypenum(catalog.max_size)
            max == DecimalValue(Tail(catalog.max_size.ident), Len(catalog.max_size.ident) - 1)
        IN  \A i \in 1..Len(hs) :
                /\ (\E j \in 1..(i - 1) : hs[j].code.tokens = hs[i].code.tokens)
                        => \E d \in Reported : d.kind = "DuplicateCode" /\ d.entry = i
                /\ (sizes /\ HasByteLength(hs[i]) /\ ByteLength(hs[i]) > max)
                        => \E d \in Reported : d.kind = "MaxSizeExceeded" /\ d.entry = i
                /\ (sizes /\ ~HasByteLength(hs[i]))
                        => \E d \in Reported : d.kind = "InvalidByteSize" /\ d.entry = i

(***************************************************************************)
(* C13: fail-fast build.  Whenever the expansion emitted a diagnostic, the *)
(* derive put no impls into the crate, complete or partial, and no call    *)
(* was served by them; impls that exist are those of the whole enum; and   *)
(* the expansion changed nothing but the diagnostics and the impls.        *)
(***************************************************************************)
FailFast ==
    /\ (outcome # "none" /\ diags # <<>>) => (registry = NoRegistry /\ last.op = "init")
    /\ last.op \in {"into_u64", "try_from", "digest", "multihash_from_digest"}
            => (diags = <<>> /\ outcome = "expanded")
    /\ registry # NoRegistry
            => (registry.hashes = catalog.hashes /\ registry.max_size = catalog.max_size)
    /\ (outcome # "none" /\ last.op = "init") => (mh = NoValue /\ buf = <<>> /\ fed = 0)

\* multihash ran to its end and returned its tokens, but it had emitted two errors
FailFastWitness ==
    /\ outcome = "expanded"
    /\ Len(diags) = 2
    /\ diags[1].kind = "DuplicateCode"
    /\ diags[2].kind = "MaxSizeExceeded"
    /\ registry = NoRegistry

(***************************************************************************)
(* C17: in the impls of an accepted enum the conversions between variants  *)
(* and integer codes are inverse to each other: the code of a variant      *)
(* resolves back to that variant, an integer that resolves to a variant is *)
(* that variant's code, and an integer resolves exactly if an entry        *)
(* declares it, failing with UnsupportedCode of the integer otherwise.     *)
(***************************************************************************)
CodeVariantBijection ==
    /\ last.op = "into_u64" =>
            LET arms == {j \in 1..Len(registry.hashes) :
                            registry.hashes[j].code.value = last.res.n}
            IN  /\ last.res.n = catalog.hashes[last.code].code.value
                /\ arms = {last.code}
                /\ code_from_u64(registry, last.res.n) = OkCode(last.code)
    /\ last.op = "try_from" =>
            LET declared == {catalog.hashes[j].code.value : j \in 1..Len(catalog.hashes)}
            IN  /\ (last.res.tag = "Ok") <=> (last.code \in declared)
                /\ last.res.tag = "Ok" => catalog.hashes[last.res.n].code.value = last.code
                /\ last.code \notin declared => last.res = Err("UnsupportedCode", last.code)

\* the part of C17 about try_from alone: what resolves has the code asked for,
\* what is not declared fails with UnsupportedCode
TryFromResolvesDeclared ==
    last.op = "try_from" =>
        LET declared == {catalog.hashes[j].code.value : j \in 1..Len(catalog.hashes)}
        IN  /\ (last.res.tag = "Ok") <=> (last.code \in declared)
            /\ last.res.tag = "Ok" => catalog.hashes[last.res.n].code.value = last.code
            /\ last.code \notin declared => last.res = Err("UnsupportedCode", last.code)

(***************************************************************************)
(* C18: with enforcement on and a max_size that is a typenum, an enum with *)
(* an entry whose digest type has no typenum size as its last generic      *)
(* argument (no generic argument, a type that is no typenum, an inferred   *)
(* _) is rejected with an 'Invalid byte size' diagnostic; with enforcement *)
(* off no size diagnostic is reported for the same enum.                   *)
(***************************************************************************)
InvalidByteSizeReported ==
    (/\ outcome # "none"
     /\ WellFormed(catalog)
     /\ \E i \in 1..Len(catalog.hashes) : ~HasByteLength(catalog.hashes[i]))
        => /\ (~catalog.no_max_size_errors /\ IsTypenum(catalog.max_size))
                => /\ ~Accepted
                   /\ registry = NoRegistry
                   /\ \E d \in Reported : d.kind = "InvalidByteSize"
           /\ catalog.no_max_size_errors
                => \A d \in Reported : d.kind = "DuplicateCode"

\* C18 as it reads: whatever max_size is, and with enforcement off the enum is
\* accepted
InvalidByteSizeAlways ==
    (/\ outcome # "none"
     /\ WellFormed(catalog)
     /\ \E i \in 1..Len(catalog.hashes) : ~HasByteLength(catalog.hashes[i]))
        => IF catalog.no_max_size_errors
           THEN Accepted /\ \A d \in Reported : d.kind = "DuplicateCode"
           ELSE ~Accepted /\ \E d \in Reported : d.kind = "InvalidByteSize"

\* what the derive does when no digest type begins with a character of more than
\* one byte: the diagnostic is that of the first entry without a typenum size
InvalidByteSizeButPanic ==
    (/\ outcome # "none"
     /\ WellFormed(catalog)
     /\ \E i \in 1..Len(catalog.hashes) : ~HasByteLength(catalog.hashes[i])
     /\ \A i \in 1..Len(catalog.hashes) :
            catalog.hashes[i].digest.last.kind = "Path"
                => Utf8Len(catalog.hashes[i].digest.last.ident[1]) = 1)
        => LET hs == catalog.hashes
               bad == {i \in 1..Len(hs) : ~HasByteLength(hs[i])}
               first == CHOOSE i \in bad : \A j \in bad : i <= j
               alike == \E i \in 1..Len(hs) : \E j \in 1..Len(hs) :
                            i # j /\ hs[i].code.tokens = hs[j].code.tokens
           IN  /\ (~catalog.no_max_size_errors /\ IsTypenum(catalog.max_size))
                    => /\ ~Accepted
                       /\ registry = NoRegistry
                       /\ \E d \in Reported : d.kind = "InvalidByteSize" /\ d.entry = first
               /\ catalog.no_max_size_errors
                    => /\ \A d \in Reported : d.kind = "DuplicateCode"
                       /\ Accepted <=> ~alike

\* two of the shapes in one enum: rejected with enforcement on, for the first
InvalidByteSizeRejected ==
    /\ outcome = "expanded"
    /\ ~catalog.no_max_size_errors
    /\ Len(catalog.hashes) = 2
    /\ catalog.hashes[1].digest = NoArguments("Sha2_256Digest")
    /\ catalog.hashes[2].digest = Angle("Sha2Digest", Foo)
    /\ diags = <<Diag("InvalidByteSize", 1, 0, 0)>>
    /\ registry = NoRegistry

\* an enum with a digest type without generic argument, accepted with enforcement off
InvalidByteSizeUnreported ==
    /\ catalog.no_max_size_errors
    /\ Len(catalog.hashes) = 1
    /\ catalog.hashes[1].digest = NoArguments("Sha2_256Digest")
    /\ Accepted
    /\ registry.built

\* a digest type whose size begins with U+00DC: the derive panics, nothing is reported
InvalidByteSizePanics ==
    /\ outcome = "panicked"
    /\ ~catalog.no_max_size_errors
    /\ catalog.max_size = U32
    /\ Len(catalog.hashes) = 1
    /\ catalog.hashes[1].digest = Angle("Sha2Digest", UUmlaut32)
    /\ diags = <<>>

(***************************************************************************)
(* C19: in the impls of an enum accepted with enforcement on, digest and   *)
(* multihash_from_digest never fail: for every variant and every input the *)
(* digest is wrapped, its length being at most MaxSize.                    *)
(***************************************************************************)
WrapNeverFails ==
    (last.op \in {"digest", "multihash_from_digest"} /\ ~catalog.no_max_size_errors)
        => /\ last.res.tag = "Ok"
           /\ Len(last.res.mh.digest) <= DecimalValue(Tail(catalog.max_size.ident),
                                                       Len(catalog.max_size.ident) - 1)
           /\ last.res.n = catalog.hashes[last.code].code.value

\* the part of C19 about multihash_from_digest alone
FromDigestNeverFails ==
    (last.op = "multihash_from_digest" /\ ~catalog.no_max_size_errors)
        => /\ last.res.tag = "Ok"
           /\ Len(last.res.mh.digest) = last.dty.size
           /\ last.res.n = catalog.hashes[last.code].code.value

\* the part of C19 about digest for entries whose hasher makes digests of the
\* declared digest type
DigestNeverFailsWhenTyped ==
    (/\ last.op = "digest"
     /\ ~catalog.no_max_size_errors
     /\ ByteLength(catalog.hashes[last.code]) = HasherOf(catalog.hashes[last.code].hasher).digest.size)
        => last.res.tag = "Ok"

(***************************************************************************)
(* Vocabulary of the codec properties: the i-th byte of the encoding of a  *)
(* digest d under entry e, and the length of that encoding.                *)
(***************************************************************************)
EncodedLen(e) == varintLen(e.code) + varintLen(e.digest.size) + e.digest.size

EncodedByte(e, d, i) ==
    LET a == varintLen(e.code)
    IN  IF i <= a
        THEN ((e.code \div (128 ^ (i - 1))) % 128) + (IF i < a THEN 128 ELSE 0)
        ELSE IF i = a + 1 THEN e.digest.size
        ELSE d[i - a - 1]

\* bytes that all have the continuation bit, fewer than the ten a u64 takes at
\* most: a varint that has not ended
Unended(bytes) == Len(bytes) < 10 /\ \A i \in 1..Len(bytes) : bytes[i] >= 128

(***************************************************************************)
(* C15: read on a stream that ends inside the code varint, inside the size *)
(* varint of a declared code, or, after a declared code and its declared   *)
(* size, before all the digest bytes, fails with an I/O failure and returns*)
(* no value; a value is returned only when the declared number of digest   *)
(* bytes was taken from the stream after the two varints.  (Every declared *)
(* size is below 128, so its varint is one byte.)                          *)
(***************************************************************************)
ReadShortStream ==
    last.op = "read" =>
        LET src == last.src
            io == last.res = Err("Io", 0)
        IN  /\ Unended(src) => io
            /\ \A k \in 1..Min(Len(src), 4) :
                    LET head == SubSeq(src, 1, k)
                        c == Groups(head, k)
                    IN  (Decodes(head, c) /\ c \in {e.code : e \in Range(hashes(table))})
                        => /\ Unended(SubSeq(src, k + 1, Len(src))) => io
                           /\ (/\ Len(src) > k
                               /\ src[k + 1] = Declared(table, c).digest.size
                               /\ Len(src) - (k + 1) < Declared(table, c).digest.size) => io
                           /\ last.res.tag = "Ok" =>
                                LET n == Declared(table, c).digest.size
                                IN  /\ Len(src) >= k + 1 + n
                                    /\ last.res.mh.digest = SubSeq(src, k + 2, k + 1 + n)
                                    /\ Len(src) - Len(buf) = k + 1 + n

\* the stream held the code, the size and all but the last digest byte of a value
ReadShortStreamWitness ==
    /\ last.op = "read"
    /\ mh # NoValue
    /\ Len(last.src) = EncodedLen(Declared(table, code(table, mh))) - 1
    /\ \A i \in 1..Len(last.src) :
            last.src[i] = EncodedByte(Declared(table, code(table, mh)), mh.digest, i)
    /\ last.res = Err("Io", 0)

\* the stream ended inside a three-byte code varint
ReadShortInsideCode ==
    /\ last.op = "read"
    /\ Len(last.src) = 2 /\ last.src[1] >= 128 /\ last.src[2] >= 128
    /\ last.res = Err("Io", 0)

(***************************************************************************)
(* C16: write to a sink that fails.  write returns the sink's failure, and *)
(* returns it at the first segment the sink has no room for: what the sink *)
(* took is the beginning of the encoding up to its room and nothing of the *)
(* later segments; write succeeds exactly if the sink had room for the     *)
(* code varint, the size varint and the digest, and then it took them all. *)
(***************************************************************************)
WritePropagates ==
    last.op = "write_slice" =>
        LET e == Declared(table, code(table, mh))
            room == last.code
            kind == last.input[1]
        IN  /\ (last.res.tag = "Ok") <=> (room >= EncodedLen(e))
            /\ room >= EncodedLen(e) => (last.res = Ok(mh) /\ Len(buf) = EncodedLen(e))
            /\ room < EncodedLen(e) => (last.res = Err("Io", kind) /\ Len(buf) = room)
            /\ \A i \in 1..Len(buf) : buf[i] = EncodedByte(e, mh.digest, i)

\* the sink failed inside the three-byte code varint of a Blake2 value
WritePropagatesWitness ==
    /\ last.op = "write_slice"
    /\ last.code = 2
    /\ code(table, mh) = 45600
    /\ last.res = Err("Io", 2)
    /\ Len(buf) = 2

\* the sink had room for the code and the size varint and failed at the digest
WriteFailsAtDigest ==
    /\ last.op = "write_slice"
    /\ last.code = 2
    /\ code(table, mh) = 18
    /\ last.res = Err("Io", 1)
    /\ buf = <<18, 32>>

\* the [0u8; 35] of the roundtrip test
WriteFitsSlice ==
    /\ last.op = "write_slice"
    /\ last.code = 35
    /\ code(table, mh) = 160
    /\ last.res = Ok(mh)

(***************************************************************************)
(* C20: read takes exactly one encoded value from the stream.  On the      *)
(* encoding of a value v followed by any bytes x, read (and from_bytes)    *)
(* returns v, has consumed varintLen(code) + varintLen(size) + size bytes  *)
(* and leaves x unread.                                                    *)
(***************************************************************************)
ReadLeavesTrailing ==
    (/\ last.op = "read"
     /\ mh # NoValue
     /\ Len(last.src) >= Len(to_bytes(table, mh))
     /\ SubSeq(last.src, 1, Len(to_bytes(table, mh))) = to_bytes(table, mh))
        => LET e == Declared(table, code(table, mh))
               n == varintLen(e.code) + varintLen(e.digest.size) + e.digest.size
           IN  /\ last.res = Ok(mh)
               /\ from_bytes(table, last.src) = {Ok(mh)}
               /\ Len(last.src) - Len(buf) = n
               /\ buf = SubSeq(last.src, n + 1, Len(last.src))

\* a value was read from a stream that held its encoding and one more byte
ReadLeavesTrailingWitness ==
    /\ last.op = "read"
    /\ mh # NoValue
    /\ last.src = Append(to_bytes(table, mh), 255)
    /\ last.res = Ok(mh)
    /\ buf = <<255>>

(***************************************************************************)
(* C14: equality is over (code, digest bytes).  Two values of one table    *)
(* are equal if and only if they have the same code and the same digest    *)
(* bytes.                                                                  *)
(***************************************************************************)
EqualityByCodeAndDigest ==
    last.op = "eq" =>
        ((last.res.tag = "Equal")
            <=> (/\ code(table, mh) = code(table, last.res.mh)
                 /\ digest(mh) = digest(last.res.mh)))

\* two values with the same digest bytes and different codes are not equal
EqualityByCodeAndDigestWitness ==
    /\ last.op = "eq"
    /\ mh.ident = "Sha2_256"
    /\ last.res.mh.ident = "Sha3_256"
    /\ digest(mh) = digest(last.res.mh)
    /\ last.res.tag = "Unequal"

\* two values with the same code and digest bytes are equal
EqualValues ==
    /\ last.op = "eq"
    /\ code(table, mh) = 45600
    /\ code(table, last.res.mh) = 45600
    /\ digest(mh) = digest(last.res.mh)
    /\ last.res.tag = "Equal"

====
